---- MODULE Spec2Model ----
(***************************************************************************)
(* Pairwise ranking app: the profile / list / pair state machine.          *)
(*                                                                         *)
(* Two reducers live in the repository.                                    *)
(*   - src/unnamed/part_001: reducer -> profileReducer -> listReducer /     *)
(*     pairReducer, handling PROFILE_ADD, PROFILE_SET_CURRENT, PAIR_VOTE,   *)
(*     PAIR_SKIP and LIST_RESET_ROWS.  Its action creators ('./actions')    *)
(*     are not among the sources; the payloads they build (nameMap,         *)
(*     pairList) are modelled from the specification (normalize,            *)
(*     generatePairs).                                                      *)
(*   - src/src/contexts/Profile.js: the reducer behind ProfileProvider,     *)
(*     with uniqueByName, createPairs, createPairList and generateNewKey.   *)
(*                                                                         *)
(* JavaScript arrays are 0-based, TLA+ sequences 1-based: the element at   *)
(* JavaScript index i is element i + 1 of the sequence.                    *)
(***************************************************************************)
EXTENDS Integers, Sequences, FiniteSets, TLC

VARIABLES
  state,        \* part_001: the ProfileState held by the store
  lastType,     \* the type of the action of the last reducer call
  threw,        \* whether the last reducer call threw
  inputIntact,  \* whether the state object handed to the last reducer call reads after the call as before it
  hist,         \* per profile: votes and merges applied, pairs removed, ids of voted pairs (observers, not program state)
  ctx,          \* Profile.js: the ProfileState held by ProfileProvider
  ctxLast,      \* Profile.js: what the last reducer call did
  norm,         \* Profile.js: a raw list and, once uniqueByName has run on it, the list it returned
  kept          \* part_001: the LIST_RESET_ROWS action object the caller of dispatch holds on to, NoAction if none

vars == <<state, lastType, threw, inputIntact, hist, ctx, ctxLast, norm, kept>>

----------------------------------------------------------------------------
(* Bounds of the model *)

\* PAIR_VOTE actions dispatched to one profile
MaxVotes == 1
\* LIST_RESET_ROWS actions dispatched to one profile
MaxMerges == 1
\* PAIR_SKIP actions dispatched to one profile
MaxSkips == 1
\* longest raw item list handed to addProfile of Profile.js
MaxRawLen == 2
\* longest raw item list handed to uniqueByName on its own
MaxRows == 3
\* PAIR_VOTE, PAIR_SKIP and LIST_RESET_ROWS actions dispatched to one profile of the two-key store
MaxStoreOps == 1
\* PAIR_VOTE, PAIR_SKIP and LIST_RESET_ROWS actions dispatched to one profile of the store whose caller dispatches an action object again
MaxSharedOps == 2

----------------------------------------------------------------------------
(* Values *)

\* candidate names, in the order the raw lists below keep
NameOrder == <<"A", "B", "C">>
Names == {NameOrder[i] : i \in DOMAIN NameOrder}
rank(n) == CHOOSE i \in DOMAIN NameOrder : NameOrder[i] = n
\* an id that is never a candidate of any profile
UnknownId == "Z"
NoImage == ""
Images == {"x.png", "y.png"}
ProfileKeys == {"k1", "k2"}
ProfileNames == {"movies"}
Null == "null"

PROFILE_ADD == "PROFILE/ADD"
PROFILE_SET_CURRENT == "PROFILE/SET_CURRENT"
PAIR_VOTE == "PAIR/VOTE"
PAIR_SKIP == "PAIR/SKIP"
LIST_RESET_ROWS == "LIST/RESET_ROWS"

\* undefined++ stores NaN; NaN + 1 is NaN.  Scores and counters are otherwise >= 0.
NaN == -1
Inc(x) == IF x = NaN THEN NaN ELSE x + 1

Min(a, b) == IF a < b THEN a ELSE b
Max(a, b) == IF a > b THEN a ELSE b

SeqsUpTo(S, n) == UNION {[1..k -> S] : k \in 0..n}

\* Raw rows as the text area yields them, {name, image}: every set of names,
\* listed in NameOrder.  Repeated rows and other orders change only the order of
\* the payload's pairList and which candidate of a pair is its left one.
RawLists ==
  {l \in SeqsUpTo([name : Names, image : {NoImage}], Cardinality(Names)) :
     \A i, j \in DOMAIN l : i < j => rank(l[i].name) < rank(l[j].name)}

\* readings of new Date().getTime()
Times == {"t0", "t1"}

----------------------------------------------------------------------------
(* Action payloads of part_001 (built by './actions', modelled from the spec) *)

\* names of rawItems in order of first occurrence
RECURSIVE firstOccurrences(_)
firstOccurrences(rawItems) ==
  IF rawItems = <<>> THEN <<>>
  ELSE LET front == firstOccurrences(SubSeq(rawItems, 1, Len(rawItems) - 1))
           n == rawItems[Len(rawItems)].name
       IN IF \E i \in DOMAIN front : front[i] = n THEN front ELSE Append(front, n)

\* Candidate Normalizer: mapping id -> Candidate, last entry of a name wins, score 0
normalize(rawItems) ==
  LET ids == {rawItems[i].name : i \in DOMAIN rawItems}
      lastOf(n) == CHOOSE i \in DOMAIN rawItems :
                     /\ rawItems[i].name = n
                     /\ \A j \in DOMAIN rawItems : rawItems[j].name = n => j <= i
  IN [n \in ids |-> [id |-> n, name |-> n, image |-> rawItems[lastOf(n)].image, score |-> 0]]

\* Which JavaScript object a pair of a queue or of a payload is.  The reducer
\* never copies a pair: profiles keep the objects of data.pairList.  A pair
\* built for an action that is dispatched once is held by the one queue it was
\* put in (Unshared).  The pairs of the action object the caller holds on to
\* (Held) are held by that action and by every queue the action was dispatched
\* to; two Held pairs of the same id are the same object.
Unshared == "unshared"
Held == "held"
sameObject(p, q) == p.obj = Held /\ q.obj = Held /\ p.id = q.id

\* order-independent composite id of a pair
pairId(a, b) == {a, b}
\* a new pair object
VotingPair(a, b) ==
  [id |-> pairId(a, b), leftId |-> a, rightId |-> b, skipped |-> 0, obj |-> Unshared]

RECURSIVE innerPairs(_, _, _, _)
innerPairs(ids, i, j, existingPairIds) ==
  IF j > Len(ids) THEN <<>>
  ELSE (IF pairId(ids[i], ids[j]) \in existingPairIds THEN <<>> ELSE <<VotingPair(ids[i], ids[j])>>)
       \o innerPairs(ids, i, j + 1, existingPairIds)

RECURSIVE outerPairs(_, _, _)
outerPairs(ids, i, existingPairIds) ==
  IF i > Len(ids) THEN <<>>
  ELSE innerPairs(ids, i, i + 1, existingPairIds) \o outerPairs(ids, i + 1, existingPairIds)

\* Pair Generator: one pair per unordered combination, outer id first, inner loop over the remaining ids
generatePairs(ids, existingPairIds) == outerPairs(ids, 1, existingPairIds)

addProfileAction(name, rawItems, newProfileId) ==
  [type |-> PROFILE_ADD,
   data |-> [name |-> name, newProfileId |-> newProfileId,
             nameMap |-> normalize(rawItems),
             pairList |-> generatePairs(firstOccurrences(rawItems), {})]]

setCurrentProfileAction(id) == [type |-> PROFILE_SET_CURRENT, data |-> [id |-> id]]

votePairAction(pairIndex, winnerListId) ==
  [type |-> PAIR_VOTE, data |-> [pairIndex |-> pairIndex, winnerListId |-> winnerListId]]

skipPairAction(pairIndex) == [type |-> PAIR_SKIP, data |-> [pairIndex |-> pairIndex]]

resetRowsAction(rawItems) ==
  [type |-> LIST_RESET_ROWS,
   data |-> [nameMap |-> normalize(rawItems),
             pairList |-> generatePairs(firstOccurrences(rawItems), {})]]

----------------------------------------------------------------------------
(* The reducer of part_001 *)

\* Array.prototype.splice(start, deleteCount) on a copy: a negative start counts
\* from the end, a start past the end deletes nothing
splice(arr, start, deleteCount) ==
  LET s == IF start < 0 THEN Max(Len(arr) + start, 0) ELSE Min(start, Len(arr))
      d == Min(Max(deleteCount, 0), Len(arr) - s)
  IN SubSeq(arr, 1, s) \o SubSeq(arr, s + d + 1, Len(arr))

\* pairSkip[pairIndex] is undefined outside the array, and reading .skipped of it throws
pairReducerThrows(pairs, action, pairIndex) ==
  /\ action.type = PAIR_SKIP
  /\ pairIndex \notin 0..(Len(pairs) - 1)

\* pairReducer returning the array it was given, not the spliced copy, for PAIR_VOTE
pairReducerVoteReturnsState(pairs, action, pairIndex) ==
  CASE action.type = PAIR_VOTE -> pairs
    [] action.type = PAIR_SKIP -> [pairs EXCEPT ![pairIndex + 1].skipped = Inc(@)]
    [] OTHER -> pairs

\* pairReducer with PAIR_SKIP falling through to the splice of PAIR_VOTE
pairReducerSkipFallsThrough(pairs, action, pairIndex) ==
  CASE action.type \in {PAIR_VOTE, PAIR_SKIP} -> splice(pairs, pairIndex, 1)
    [] OTHER -> pairs

\* The array pairReducer returns.  [...state] copies the array, not the pair
\* objects in it: pairSkip[pairIndex] is the object state[pairIndex] holds, and
\* skipped++ writes to that object (skippedThrough: what every other holder of
\* it reads afterwards).
pairReducer(pairs, action, pairIndex) ==
  CASE action.type = PAIR_VOTE -> splice(pairs, pairIndex, 1)
    [] action.type = PAIR_SKIP -> [pairs EXCEPT ![pairIndex + 1].skipped = Inc(@)]
    [] OTHER -> pairs

\* The array handed to pairReducer, as it reads after the call: it holds the
\* object that skipped++ wrote to.
pairReducerInput(pairs, action, pairIndex) ==
  IF action.type = PAIR_SKIP /\ ~pairReducerThrows(pairs, action, pairIndex)
  THEN [pairs EXCEPT ![pairIndex + 1].skipped = Inc(@)]
  ELSE pairs

\* An array of pairs other than the one handed to pairReducer, as it reads once
\* pairSkip[pairIndex].skipped++ has written to the object `skippedPair`: the
\* write shows wherever the array holds that same object.
skippedThrough(pairs, skippedPair) ==
  [i \in DOMAIN pairs |->
     IF sameObject(pairs[i], skippedPair)
     THEN [pairs[i] EXCEPT !.skipped = Inc(@)]
     ELSE pairs[i]]

listReducer(list, action, listId) ==
  CASE action.type = PAIR_VOTE ->
         LET voteListRow == IF listId \in DOMAIN list
                            THEN [list[listId] EXCEPT !.score = Inc(@)]
                            ELSE [score |-> NaN]
         IN [k \in DOMAIN list \cup {listId} |-> IF k = listId THEN voteListRow ELSE list[k]]
    [] OTHER -> list

\* pairs of resetPairs whose id occurs at no earlier index
firstById(resetPairs) ==
  LET keep == {i \in DOMAIN resetPairs : \A j \in 1..(i - 1) : resetPairs[j].id # resetPairs[i].id}
      RECURSIVE pick(_)
      pick(i) == IF i > Len(resetPairs) THEN <<>>
                 ELSE (IF i \in keep THEN <<resetPairs[i]>> ELSE <<>>) \o pick(i + 1)
  IN pick(1)

\* {...a, ...b}
spread(a, b) == [k \in DOMAIN a \cup DOMAIN b |-> IF k \in DOMAIN b THEN b[k] ELSE a[k]]

\* keys that every object literal inherits from Object.prototype: profiles[key]
\* reads a function, which is truthy and has no list and no pairs
InheritedKeys == {"constructor"}

\* With an inherited key as currentProfile, state[currentProfile].list and .pairs
\* read undefined: listReducer reads a property of undefined, pairReducer and
\* LIST_RESET_ROWS spread undefined into an array; each is a TypeError.
profileReducerThrows(profiles, action, currentProfile) ==
  \/ /\ action.type \in {LIST_RESET_ROWS, PAIR_SKIP, PAIR_VOTE}
     /\ currentProfile \notin DOMAIN profiles
  \/ /\ action.type = PAIR_SKIP
     /\ currentProfile \in DOMAIN profiles
     /\ pairReducerThrows(profiles[currentProfile].pairs, action, action.data.pairIndex)

\* The profiles object profileReducer returns.  PROFILE_ADD and LIST_RESET_ROWS
\* put the pair objects of data.pairList themselves into the queue (the obj of
\* a pair goes with it).  {...state, ...skipProfile} keeps the other profiles
\* as the objects they are, and their queues hold the pair objects they held:
\* where one of them is the object PAIR_SKIP wrote to, it reads the new count.
profileReducer(profiles, action, currentProfile, now) ==
  LET data == action.data IN
  CASE action.type = PROFILE_ADD ->
         spread(profiles,
                [k \in {currentProfile} |->
                   [name |-> data.name,
                    list |-> data.nameMap,
                    dateTime |-> now,
                    pairs |-> data.pairList,
                    totalComparisons |-> Len(data.pairList)]])
    [] action.type = PAIR_SKIP ->
         LET skippedPair == profiles[currentProfile].pairs[data.pairIndex + 1] IN
         [k \in DOMAIN profiles |->
            IF k = currentProfile
            THEN [profiles[k] EXCEPT !.dateTime = now,
                                     !.pairs = pairReducer(@, action, data.pairIndex)]
            ELSE [profiles[k] EXCEPT !.pairs = skippedThrough(@, skippedPair)]]
    [] action.type = PAIR_VOTE ->
         [profiles EXCEPT ![currentProfile] =
            [@ EXCEPT !.dateTime = now,
                      !.list = listReducer(@, action, data.winnerListId),
                      !.pairs = pairReducer(@, action, data.pairIndex)]]
    [] action.type = LIST_RESET_ROWS ->
         [profiles EXCEPT ![currentProfile] =
            [@ EXCEPT !.dateTime = now,
                      !.list = spread(@, data.nameMap),
                      !.pairs = firstById(@ \o data.pairList)]]
    [] OTHER -> profiles

\* the profiles object handed to profileReducer, as it reads after the call
profileReducerInput(profiles, action, currentProfile) ==
  IF action.type = PAIR_SKIP
  THEN LET skippedPair == profiles[currentProfile].pairs[action.data.pairIndex + 1] IN
       [k \in DOMAIN profiles |->
          IF k = currentProfile
          THEN [profiles[k] EXCEPT !.pairs = pairReducerInput(@, action, action.data.pairIndex)]
          ELSE [profiles[k] EXCEPT !.pairs = skippedThrough(@, skippedPair)]]
  ELSE profiles

\* !state.profiles[id]: profile objects and inherited members are truthy, any
\* other key reads undefined
noProfile(st, id) == id \notin DOMAIN st.profiles /\ id \notin InheritedKeys

reducerThrows(st, action) ==
  CASE action.type = PROFILE_SET_CURRENT -> noProfile(st, action.data.id)
    [] action.type \in {LIST_RESET_ROWS, PAIR_SKIP, PAIR_VOTE} ->
         \/ noProfile(st, st.currentProfile)
         \/ profileReducerThrows(st.profiles, action, st.currentProfile)
    [] OTHER -> FALSE

\* reducer that also stamps the profile it selects
reducerSetCurrentStamps(st, action, now) ==
  CASE action.type = PROFILE_SET_CURRENT ->
         [st EXCEPT !.currentProfile = action.data.id,
                    !.profiles = [k \in DOMAIN @ |->
                                    IF k = action.data.id
                                    THEN [@[k] EXCEPT !.dateTime = now]
                                    ELSE @[k]]]
    [] action.type = PROFILE_ADD ->
         [st EXCEPT !.currentProfile = action.data.newProfileId,
                    !.profiles = profileReducer(@, action, action.data.newProfileId, now)]
    [] action.type \in {LIST_RESET_ROWS, PAIR_SKIP, PAIR_VOTE} ->
         [st EXCEPT !.profiles = profileReducer(@, action, st.currentProfile, now)]
    [] OTHER -> st

\* now: what new Date().getTime() returns during the call
reducer(st, action, now) ==
  CASE action.type = PROFILE_SET_CURRENT ->
         [st EXCEPT !.currentProfile = action.data.id]
    [] action.type = PROFILE_ADD ->
         [st EXCEPT !.currentProfile = action.data.newProfileId,
                    !.profiles = profileReducer(@, action, action.data.newProfileId, now)]
    [] action.type \in {LIST_RESET_ROWS, PAIR_SKIP, PAIR_VOTE} ->
         [st EXCEPT !.profiles = profileReducer(@, action, st.currentProfile, now)]
    [] OTHER -> st

\* reducer returning the state it was given, instead of throwing, when
\* state.currentProfile keys no profile
reducerCallReturnsWithoutProfile(st, action, now) ==
  IF /\ action.type \in {LIST_RESET_ROWS, PAIR_SKIP, PAIR_VOTE}
     /\ st.currentProfile \notin DOMAIN st.profiles
  THEN [threw |-> FALSE, state |-> st]
  ELSE [threw |-> reducerThrows(st, action),
        state |-> IF reducerThrows(st, action) THEN st ELSE reducer(st, action, now)]

\* one call of reducer: whether it threw, and the state the caller holds afterwards
reducerCall(st, action, now) ==
  [threw |-> reducerThrows(st, action),
   state |-> IF reducerThrows(st, action) THEN st ELSE reducer(st, action, now)]

\* the state object handed to reducer, as it reads after the call
reducerInput(st, action) ==
  IF /\ action.type = PAIR_SKIP
     /\ ~noProfile(st, st.currentProfile)
     /\ ~profileReducerThrows(st.profiles, action, st.currentProfile)
  THEN [st EXCEPT !.profiles = profileReducerInput(@, action, st.currentProfile)]
  ELSE st

\* The action object the caller holds on to, as it reads after reducer has
\* returned for `action` on `st`: its data.pairList holds the pair objects that
\* the action put into the queues, and reads what PAIR_SKIP wrote to them.
heldAfter(held, st, action) ==
  IF action.type = PAIR_SKIP
  THEN [held EXCEPT !.data.pairList =
          skippedThrough(@, st.profiles[st.currentProfile].pairs[action.data.pairIndex + 1])]
  ELSE held

----------------------------------------------------------------------------
(* The store around the reducer of part_001: one action per dispatch *)

initialState == [currentProfile |-> Null, profiles |-> <<>>]

\* the caller holds on to no action object
NoAction == [type |-> Null, data |-> [nameMap |-> <<>>, pairList |-> <<>>]]

noHistory == [votes |-> 0, skips |-> 0, merges |-> 0, removed |-> 0, votedIds |-> {}]

idsOf(pairs) == {pairs[i].id : i \in DOMAIN pairs}

\* what the observers record of a call that returned `after` for `action` on `st`
histAfter(st, action, after) ==
  CASE action.type # PROFILE_ADD /\ st.currentProfile \notin DOMAIN hist -> hist
    [] action.type = PROFILE_ADD ->
         spread(hist, [k \in {action.data.newProfileId} |-> noHistory])
    [] action.type = PAIR_VOTE ->
         LET cur == st.currentProfile
             was == st.profiles[cur].pairs
             is == after.profiles[cur].pairs
         IN [hist EXCEPT ![cur].votes = @ + 1,
                         ![cur].removed = @ + (Len(was) - Len(is)),
                         ![cur].votedIds = @ \cup (idsOf(was) \ idsOf(is))]
    [] action.type = PAIR_SKIP ->
         [hist EXCEPT ![st.currentProfile].skips = @ + 1]
    [] action.type = LIST_RESET_ROWS ->
         [hist EXCEPT ![st.currentProfile].merges = @ + 1]
    [] OTHER -> hist

\* dispatch(action): the store calls reducer(state, action) and keeps what it
\* returns; a call that throws leaves the store's state as it was.  `held` is
\* the action object the caller holds on to when the call begins.
DispatchHolding(action, now, held) ==
  LET call == reducerCall(state, action, now) IN
  /\ lastType' = action.type
  /\ threw' = call.threw
  /\ state' = call.state
  /\ IF call.threw
     THEN /\ inputIntact' = TRUE
          /\ hist' = hist
          /\ kept' = held
     ELSE /\ inputIntact' = (reducerInput(state, action) = state)
          /\ hist' = histAfter(state, action, call.state)
          /\ kept' = heldAfter(held, state, action)
  /\ UNCHANGED <<ctx, ctxLast, norm>>

\* dispatch of an action object the caller builds for this call
Dispatch(action, now) == DispatchHolding(action, now, kept)

\* state.currentProfile is a key of state.profiles: a profile is selected.  (This
\* is not the test of reducer before a vote, skip or merge, which is the
\* truthiness of state.profiles[state.currentProfile]: noProfile.)
currentIsStored == state.currentProfile \in DOMAIN state.profiles
currentProfile == state.profiles[state.currentProfile]
currentHist == hist[state.currentProfile]
validIndex(pairIndex) == pairIndex \in 0..(Len(currentProfile.pairs) - 1)

\* the distinct payloads the action creators build from the raw lists
AddProfileActions(keys) ==
  {addProfileAction(name, rawItems, newProfileId) :
     name \in ProfileNames, rawItems \in RawLists, newProfileId \in keys}
ResetRowsActions == {resetRowsAction(rawItems) : rawItems \in RawLists}
\* -1 and Cardinality(Names) address no pair of any queue over Names
PairIndexes == -1..Cardinality(Names)
WinnerIds == Names \cup {UnknownId}
VotePairActions ==
  {votePairAction(pairIndex, winnerListId) : pairIndex \in PairIndexes, winnerListId \in WinnerIds}
SkipPairActions == {skipPairAction(pairIndex) : pairIndex \in PairIndexes}

AddProfile(keys, times) ==
  \E action \in AddProfileActions(keys), now \in times :
    Dispatch(action, now)

SetCurrentProfile(times) ==
  \E id \in ProfileKeys, now \in times :
    Dispatch(setCurrentProfileAction(id), now)

VotePair(times) ==
  \E action \in VotePairActions, now \in times :
    /\ currentIsStored => currentHist.votes < MaxVotes
    /\ Dispatch(action, now)

SkipPair(times) ==
  \E action \in SkipPairActions, now \in times :
    /\ currentIsStored => currentHist.skips < MaxSkips
    /\ Dispatch(action, now)

ResetRows(times) ==
  \E action \in ResetRowsActions, now \in times :
    /\ currentIsStored => currentHist.merges < MaxMerges
    /\ Dispatch(action, now)

Init ==
  /\ state = initialState
  /\ lastType = "@@INIT"
  /\ threw = FALSE
  /\ inputIntact = TRUE
  /\ hist = <<>>
  /\ ctx = initialState
  /\ ctxLast = <<>>
  /\ norm = [rows |-> <<>>, done |-> FALSE, list |-> <<>>]
  /\ kept = NoAction

\* The voting engine: a store that holds one profile key and reads one clock value
EngineKeys == {"k1"}
EngineTimes == {"t1"}

Next ==
  \/ AddProfile(EngineKeys, EngineTimes)
  \/ SetCurrentProfile(EngineTimes)
  \/ VotePair(EngineTimes)
  \/ SkipPair(EngineTimes)
  \/ ResetRows(EngineTimes)

Spec == Init /\ [][Next]_vars

----------------------------------------------------------------------------
(* The profile store: the reducer of part_001 with two profile keys *)

\* a type tag that is none of the action kinds
UNKNOWN_TYPE == "UNKNOWN"
unknownAction == [type |-> UNKNOWN_TYPE, data |-> [id |-> Null]]

StoreNames == {"A", "B"}
StoreRawLists == {l \in RawLists : \A i \in DOMAIN l : l[i].name \in StoreNames}
\* ids handed to setCurrentProfile: the keys profiles are added under, and a
\* member every object inherits
StoreIds == ProfileKeys \cup InheritedKeys
\* a queue over StoreNames holds one pair at most: -1 and 1 address no pair of it
StorePairIndexes == -1..1
StoreWinnerIds == StoreNames \cup {UnknownId}
\* the clock reads AddTime while a profile is added and OpTime during every later call
AddTime == "t0"
OpTime == "t1"

\* the current profile has had fewer than MaxStoreOps actions
storeOpsLeft ==
  currentIsStored => currentHist.votes + currentHist.skips + currentHist.merges < MaxStoreOps

StoreAddProfile ==
  \E name \in ProfileNames, rawItems \in StoreRawLists, newProfileId \in ProfileKeys :
    Dispatch(addProfileAction(name, rawItems, newProfileId), AddTime)

StoreSetCurrentProfile ==
  \E id \in StoreIds :
    Dispatch(setCurrentProfileAction(id), OpTime)

StoreVotePair ==
  \E pairIndex \in StorePairIndexes, winnerListId \in StoreWinnerIds :
    /\ storeOpsLeft
    /\ Dispatch(votePairAction(pairIndex, winnerListId), OpTime)

StoreSkipPair ==
  \E pairIndex \in StorePairIndexes :
    /\ storeOpsLeft
    /\ Dispatch(skipPairAction(pairIndex), OpTime)

StoreResetRows ==
  \E rawItems \in StoreRawLists :
    /\ storeOpsLeft
    /\ Dispatch(resetRowsAction(rawItems), OpTime)

StoreUnknown == Dispatch(unknownAction, OpTime)

NextStore ==
  \/ StoreAddProfile
  \/ StoreSetCurrentProfile
  \/ StoreVotePair
  \/ StoreSkipPair
  \/ StoreResetRows
  \/ StoreUnknown

SpecStore == Init /\ [][NextStore]_vars

----------------------------------------------------------------------------
(* The profile store whose caller dispatches one action object more than once *)

\* the action object as the caller holds on to it: its pairs are the Held objects
holdAction(action) ==
  [action EXCEPT !.data.pairList = [i \in DOMAIN @ |-> [@[i] EXCEPT !.obj = Held]]]

\* the current profile has had fewer than MaxSharedOps actions
sharedOpsLeft ==
  currentIsStored => currentHist.votes + currentHist.skips + currentHist.merges < MaxSharedOps

\* profiles are added under keys that key no profile yet
SharedAddProfile ==
  \E name \in ProfileNames, rawItems \in StoreRawLists :
    \E newProfileId \in ProfileKeys \ DOMAIN state.profiles :
      Dispatch(addProfileAction(name, rawItems, newProfileId), AddTime)

SharedSetCurrentProfile ==
  \E id \in ProfileKeys :
    Dispatch(setCurrentProfileAction(id), OpTime)

SharedVotePair ==
  \E pairIndex \in StorePairIndexes, winnerListId \in StoreNames :
    /\ sharedOpsLeft
    /\ Dispatch(votePairAction(pairIndex, winnerListId), OpTime)

SharedSkipPair ==
  \E pairIndex \in StorePairIndexes :
    /\ sharedOpsLeft
    /\ Dispatch(skipPairAction(pairIndex), OpTime)

\* const action = resetRows(rawItems); dispatch(action)
SharedResetRows ==
  /\ kept = NoAction
  /\ sharedOpsLeft
  /\ \E rawItems \in StoreRawLists :
       DispatchHolding(holdAction(resetRowsAction(rawItems)), OpTime,
                       holdAction(resetRowsAction(rawItems)))

\* dispatch(action) again, of the action object held on to
SharedResetRowsAgain ==
  /\ kept # NoAction
  /\ sharedOpsLeft
  /\ Dispatch(kept, OpTime)

NextShared ==
  \/ SharedAddProfile
  \/ SharedSetCurrentProfile
  \/ SharedVotePair
  \/ SharedSkipPair
  \/ SharedResetRows
  \/ SharedResetRowsAgain

SpecShared == Init /\ [][NextShared]_vars

----------------------------------------------------------------------------
(* Voting a profile to the end: one profile is added, then voted on and skipped *)

\* the longest queue a profile over Names starts with; no queue outlasts that many valid votes
MaxQueue == (Cardinality(Names) * (Cardinality(Names) - 1)) \div 2

VotingAdd ==
  /\ state.profiles = <<>>
  /\ \E action \in AddProfileActions(EngineKeys) : Dispatch(action, AddTime)

\* a vote on a pending pair
VotingVote ==
  /\ currentIsStored
  /\ currentHist.votes < MaxQueue
  /\ \E action \in VotePairActions :
       /\ validIndex(action.data.pairIndex)
       /\ Dispatch(action, OpTime)

VotingSkip ==
  /\ currentIsStored
  /\ currentHist.skips < MaxSkips
  /\ \E action \in SkipPairActions : Dispatch(action, OpTime)

NextVoting ==
  \/ VotingAdd
  \/ VotingVote
  \/ VotingSkip

\* votes on pending pairs keep being dispatched while there is one
SpecVoting == Init /\ [][NextVoting]_vars /\ WF_vars(VotingVote)

----------------------------------------------------------------------------
(* Readings the claims use *)

\* the sum of the scores as JavaScript adds them: NaN once any score is NaN
sumScores(list) ==
  LET RECURSIVE sum(_)
      sum(ids) == IF ids = {} THEN 0
                  ELSE LET id == CHOOSE x \in ids : TRUE IN list[id].score + sum(ids \ {id})
  IN IF \E id \in DOMAIN list : list[id].score = NaN THEN NaN ELSE sum(DOMAIN list)

progress(profile) == profile.totalComparisons - Len(profile.pairs)

\* the current profile is fully voted: its pending queue is empty
votedOut == currentIsStored /\ currentProfile.pairs = <<>>

distinctIds(pairs) == \A i, j \in DOMAIN pairs : pairs[i].id = pairs[j].id => i = j

\* this step is dispatch(action) with the clock reading `now`
dispatched(action, now) ==
  /\ lastType' = action.type
  /\ threw' = reducerThrows(state, action)
  /\ state' = IF reducerThrows(state, action) THEN state ELSE reducer(state, action, now)

\* this step is dispatch(action), and the reducer returned
applied(action, now) == dispatched(action, now) /\ ~threw'

\* the current profile after the step
currentProfileAfter == state'.profiles[state.currentProfile]

----------------------------------------------------------------------------
(* Claims about the voting engine of part_001 *)

\* C2: every PAIR_VOTE the reducer applies to the current profile shortens its
\* pending queue by exactly 1 and raises exactly one candidate's score by
\* exactly 1, leaving the other scores as they were; so the scores of a profile
\* always sum to the number of votes applied to it, which is the number of pairs
\* removed from its queue.
C2_VoteRemovesOneScoresOne ==
  [][/\ \A action \in VotePairActions, now \in Times :
          (currentIsStored /\ applied(action, now)) =>
            LET list == currentProfile.list
                after == currentProfileAfter
            IN /\ Len(after.pairs) = Len(currentProfile.pairs) - 1
               /\ DOMAIN after.list = DOMAIN list
               /\ \E w \in DOMAIN list :
                    /\ after.list[w].score = list[w].score + 1
                    /\ \A c \in DOMAIN list \ {w} : after.list[c].score = list[c].score
     /\ \A k \in DOMAIN state'.profiles :
          /\ sumScores(state'.profiles[k].list) = hist'[k].votes
          /\ hist'[k].votes = hist'[k].removed]_vars

\* C3: PAIR_SKIP on a valid pairIndex changes neither the length of the pending
\* queue nor any candidate's score; the pair at pairIndex is still queued with
\* its skipped counter exactly 1 higher, and every other pending pair keeps its
\* skipped counter.
C3_SkipOnlyCountsTheSkip ==
  currentIsStored =>
    \A pairIndex \in PairIndexes, now \in Times :
      validIndex(pairIndex) =>
        LET action == skipPairAction(pairIndex)
            after == reducer(state, action, now).profiles[state.currentProfile]
            pairs == currentProfile.pairs
            target == pairs[pairIndex + 1]
        IN /\ ~reducerThrows(state, action)
           /\ Len(after.pairs) = Len(pairs)
           /\ after.list = currentProfile.list
           /\ \E j \in DOMAIN after.pairs :
                after.pairs[j] = [target EXCEPT !.skipped = @ + 1]
           /\ \A i \in DOMAIN pairs :
                pairs[i].id # target.id => \E j \in DOMAIN after.pairs : after.pairs[j] = pairs[i]

\* a skip has been applied to a queue of two pairs or more
C3_Witness ==
  /\ lastType = PAIR_SKIP
  /\ ~threw
  /\ currentIsStored
  /\ Len(currentProfile.pairs) >= 2
  /\ \E i \in DOMAIN currentProfile.pairs : currentProfile.pairs[i].skipped = 1

\* C4: progress = totalComparisons - (length of the pending queue) never
\* decreases along PAIR_VOTE, PAIR_SKIP and LIST_RESET_ROWS applied to a profile.
C4_ProgressNeverDecreases ==
  [][(currentIsStored /\ ~threw' /\ lastType' \in {PAIR_VOTE, PAIR_SKIP, LIST_RESET_ROWS}) =>
       progress(state'.profiles[state.currentProfile]) >= progress(currentProfile)]_vars

\* C5: a merge never queues a pair whose id is already pending or was resolved by
\* a vote on the profile: after it no two pending pairs share an id, no pending
\* pair has the id of a voted pair, and the same merge applied again leaves the
\* queue as it is.
C5_MergeAddsNoKnownPair ==
  [][\A action \in ResetRowsActions, now \in Times :
       (currentIsStored /\ applied(action, now)) =>
         LET pairs == currentProfileAfter.pairs
             again == reducer(state', action, now).profiles[state.currentProfile].pairs
         IN /\ distinctIds(pairs)
            /\ idsOf(pairs) \cap currentHist.votedIds = {}
            /\ again = pairs]_vars

\* C6: totalComparisons of every profile is the number of pairs generated for it
\* so far, (pairs pending) + (pairs resolved by votes): the initial pair count,
\* raised by every merge by the number of pairs the merge adds to the queue.
C6_TotalCountsEveryPair ==
  \A k \in DOMAIN state.profiles :
    state.profiles[k].totalComparisons = Len(state.profiles[k].pairs) + hist[k].removed

\* C7: a merge only adds candidates: every candidate of the profile is there
\* afterwards with the score it had, also when the merged-in map carries its id;
\* ids that were not there appear with score 0.
C7_MergeKeepsScores ==
  [][\A action \in ResetRowsActions, now \in Times :
       (currentIsStored /\ applied(action, now)) =>
         LET list == currentProfile.list
             after == currentProfileAfter
         IN /\ \A c \in DOMAIN list :
                 c \in DOMAIN after.list /\ after.list[c].score = list[c].score
            /\ \A c \in DOMAIN after.list \ DOMAIN list : after.list[c].score = 0]_vars

\* C8: after a reducer call the state object that was handed to it reads as it
\* did before the call, whatever the action.
C8_InputSnapshotUnchanged == inputIntact

\* C9: PAIR_VOTE or PAIR_SKIP with a pairIndex that addresses no pending pair of
\* the current profile fails with an error and is rejected: no pair is removed,
\* no skipped counter and no score changes.
C9_BadIndexRejected ==
  [][\A action \in VotePairActions \cup SkipPairActions, now \in Times :
       (currentIsStored /\ ~validIndex(action.data.pairIndex) /\ dispatched(action, now)) =>
         /\ threw'
         /\ currentProfileAfter.pairs = currentProfile.pairs
         /\ currentProfileAfter.list = currentProfile.list]_vars

\* C10: PAIR_VOTE with a winner that is not a candidate of the pair at pairIndex,
\* or not a key of the candidate mapping, fails with an error and is rejected:
\* the queue, the candidate ids and every score stay as they were.
C10_BadWinnerRejected ==
  [][\A action \in VotePairActions, now \in Times :
       LET pairIndex == action.data.pairIndex
           winner == action.data.winnerListId
           pairs == currentProfile.pairs
           list == currentProfile.list
           after == currentProfileAfter
       IN (/\ currentIsStored
           /\ validIndex(pairIndex)
           /\ \/ winner \notin DOMAIN list
              \/ winner \notin {pairs[pairIndex + 1].leftId, pairs[pairIndex + 1].rightId}
           /\ dispatched(action, now))
          => /\ threw'
             /\ after.pairs = pairs
             /\ DOMAIN after.list = DOMAIN list
             /\ \A c \in DOMAIN list : after.list[c].score = list[c].score]_vars

----------------------------------------------------------------------------
(* src/src/contexts/Profile.js: the reducer behind ProfileProvider *)

\* a name that is the inherited accessor of the prototype
ProtoName == "__proto__"

\* every combination of `item` with the items of `list` of another name
RECURSIVE createPairs(_, _)
createPairs(item, list) ==
  IF list = <<>> THEN <<>>
  ELSE LET pairItem == list[Len(list)]
           pairList == createPairs(item, SubSeq(list, 1, Len(list) - 1))
       IN IF item.name # pairItem.name
          THEN Append(pairList, [left |-> item, right |-> pairItem, winner |-> FALSE])
          ELSE pairList

RECURSIVE createPairList(_)
createPairList(list) ==
  LET RECURSIVE upTo(_)
      upTo(n) == IF n = 0 THEN <<>> ELSE upTo(n - 1) \o createPairs(list[n], list)
  IN upTo(Len(list))

\* Object.values of the map built by name: one entry per name, at the place of
\* the name's first row, with the fields of its last row; id and score added.
\* (sort() compares the entries as strings, all "[object Object]", and moves none.)
\* nameMap['__proto__'] = {...} runs the setter inherited from Object.prototype:
\* it replaces the prototype of nameMap and adds no property for Object.values.
uniqueByName(list) ==
  LET names == SelectSeq(firstOccurrences(list), LAMBDA n : n # ProtoName)
      lastOf(n) == CHOOSE i \in DOMAIN list :
                     /\ list[i].name = n
                     /\ \A j \in DOMAIN list : list[j].name = n => j <= i
  IN [i \in DOMAIN names |->
        [name |-> names[i], image |-> list[lastOf(names[i])].image, id |-> names[i], score |-> 0]]

\* uniqueByName on its own: any raw list of rows with a name and an image
NormalizeRows == SeqsUpTo([name : Names \cup {ProtoName}, image : Images], MaxRows)

InitNormalize ==
  /\ state = initialState
  /\ lastType = "@@INIT"
  /\ threw = FALSE
  /\ inputIntact = TRUE
  /\ hist = <<>>
  /\ ctx = initialState
  /\ ctxLast = <<>>
  /\ norm \in [rows : NormalizeRows, done : {FALSE}, list : {<<>>}]
  /\ kept = NoAction

Normalize ==
  /\ ~norm.done
  /\ norm' = [norm EXCEPT !.done = TRUE, !.list = uniqueByName(norm.rows)]
  /\ UNCHANGED <<state, lastType, threw, inputIntact, hist, ctx, ctxLast, kept>>

NextNormalize == Normalize

SpecNormalize == InitNormalize /\ [][NextNormalize]_vars

\* let safetyCheck = 100
SafetyCheck == 100

\* What the calls of generateNewKey return during one PROFILE_ADD: `first` for
\* the first `collisions` calls, `then` from then on.
generateNewKey(draws, i) == IF i <= draws.collisions THEN draws.first ELSE draws.then

\* The loop that guarantees uniqueness, from the i-th call of generateNewKey on:
\* the key the profile is stored under, whether the warning was logged, and how
\* many keys were generated.
\* the loop with its counter tested after the decrement has passed 0
RECURSIVE uniqueKeyOneMore(_, _, _, _)
uniqueKeyOneMore(profiles, draws, i, safetyCheck) ==
  IF generateNewKey(draws, i) \notin DOMAIN profiles
  THEN [key |-> generateNewKey(draws, i), warned |-> FALSE, generated |-> i]
  ELSE IF safetyCheck # -1
       THEN uniqueKeyOneMore(profiles, draws, i + 1, safetyCheck - 1)
       ELSE [key |-> generateNewKey(draws, i), warned |-> TRUE, generated |-> i]

RECURSIVE uniqueKey(_, _, _, _)
uniqueKey(profiles, draws, i, safetyCheck) ==
  IF generateNewKey(draws, i) \notin DOMAIN profiles
  THEN [key |-> generateNewKey(draws, i), warned |-> FALSE, generated |-> i]
  ELSE IF safetyCheck # 0
       THEN uniqueKey(profiles, draws, i + 1, safetyCheck - 1)
       ELSE [key |-> generateNewKey(draws, i), warned |-> TRUE, generated |-> i]

providerAddProfile(name, list) == [type |-> PROFILE_ADD, data |-> [name |-> name, list |-> list]]

providerReducerThrows(st, action) ==
  action.type = PROFILE_SET_CURRENT /\ noProfile(st, action.data.id)

\* the profiles object after state.profiles[newProfileId] = {...}
providerProfilesAfterAdd(st, action, newProfileId, now) ==
  LET uniqList == uniqueByName(action.data.list)
  IN spread(st.profiles,
            [k \in {newProfileId} |->
               [name |-> action.data.name,
                list |-> uniqList,
                dateTime |-> now,
                pairs |-> createPairList(uniqList),
                voted |-> <<>>]])

\* the reducer once the loop has settled on newProfileId
providerReducerWithKey(st, action, newProfileId, now) ==
  CASE action.type = PROFILE_ADD ->
         [currentProfile |-> newProfileId,
          profiles |-> providerProfilesAfterAdd(st, action, newProfileId, now)]
    [] action.type = PROFILE_SET_CURRENT ->
         [st EXCEPT !.currentProfile = action.data.id]
    [] OTHER -> st

providerReducer(st, action, draws, now) ==
  providerReducerWithKey(st, action, uniqueKey(st.profiles, draws, 1, SafetyCheck).key, now)

\* The state object handed to the reducer, as it reads once the reducer has
\* returned `after`: PROFILE_ADD assigns the new profile into state.profiles
\* itself, and the object it returns holds a copy of that map.
providerReducerInput(st, action, after) ==
  IF action.type = PROFILE_ADD
  THEN [st EXCEPT !.profiles = after.profiles]
  ELSE st

\* raw rows handed to addProfile
ProviderRawLists == SeqsUpTo([name : Names, image : {NoImage}], MaxRawLen)

CollisionCounts == {0, 1, SafetyCheck, SafetyCheck + 1}
KeyDraws == [collisions : CollisionCounts, first : ProfileKeys, then : ProfileKeys]
NoLoop == [key |-> Null, warned |-> FALSE, generated |-> 0]

\* One call of the reducer by ProfileProvider; `loop` is what the uniqueness
\* loop did with the keys drawn during this call.
ProviderDispatch(action, loop, now) ==
  LET after == providerReducerWithKey(ctx, action, loop.key, now)
  IN
  /\ ctx' = IF providerReducerThrows(ctx, action) THEN ctx ELSE after
  /\ ctxLast' =
       [type |-> action.type,
        threw |-> providerReducerThrows(ctx, action),
        warned |-> loop.warned,
        generated |-> loop.generated,
        inputIntact |-> \/ providerReducerThrows(ctx, action)
                        \/ providerReducerInput(ctx, action, after) = ctx]
  /\ UNCHANGED <<state, lastType, threw, inputIntact, hist, norm, kept>>

ProviderAddProfile(times) ==
  \E draws \in KeyDraws :
    \E loop \in {uniqueKey(ctx.profiles, draws, 1, SafetyCheck)} :
      \E name \in ProfileNames, list \in ProviderRawLists, now \in times :
        ProviderDispatch(providerAddProfile(name, list), loop, now)

ProviderSetCurrentProfile(times) ==
  \E id \in ProfileKeys, now \in times :
    ProviderDispatch(setCurrentProfileAction(id), NoLoop, now)

NextProvider ==
  \/ ProviderAddProfile(EngineTimes)
  \/ ProviderSetCurrentProfile(EngineTimes)

SpecProvider == Init /\ [][NextProvider]_vars

----------------------------------------------------------------------------
(* Claims about pair generation in Profile.js *)

unorderedPairs(ids) == {{a, b} : a, b \in ids} \ {{a} : a \in ids}

\* C1: for a list of n distinct names the pairs generated when the profile is
\* added are exactly n*(n-1)/2: every unordered pair of distinct candidates once
\* (never both (a,b) and (b,a)), none with the same candidate left and right, and
\* none at all for n <= 1.
C1_OnePairPerCombination ==
  \A k \in DOMAIN ctx.profiles :
    LET list == ctx.profiles[k].list
        pairs == ctx.profiles[k].pairs
        n == Len(list)
        ids == {list[i].id : i \in DOMAIN list}
    IN /\ 2 * Len(pairs) = n * (n - 1)
       /\ \A i \in DOMAIN pairs : pairs[i].left.id # pairs[i].right.id
       /\ \A c \in unorderedPairs(ids) :
            Cardinality({i \in DOMAIN pairs : {pairs[i].left.id, pairs[i].right.id} = c}) = 1
       /\ n <= 1 => pairs = <<>>

----------------------------------------------------------------------------
(* Claims about the profile store of part_001 *)

\* C11: PAIR_VOTE, PAIR_SKIP or LIST_RESET_ROWS dispatched when no profile is
\* selected (currentProfile is null or keys no entry of profiles) fails with an
\* error, and the state is unchanged.
C11_NoProfileRejected ==
  [][(~currentIsStored /\ lastType' \in {PAIR_VOTE, PAIR_SKIP, LIST_RESET_ROWS}) =>
       (threw' /\ state' = state)]_vars

\* a vote, skip or merge has been rejected in a store that holds a profile but
\* has none selected
C11_Witness ==
  /\ lastType \in {PAIR_VOTE, PAIR_SKIP, LIST_RESET_ROWS}
  /\ threw
  /\ ~currentIsStored
  /\ DOMAIN state.profiles # {}

\* C12: PROFILE_SET_CURRENT with an id that is no key of profiles fails with an
\* error in every state, the initial one included, and leaves currentProfile
\* and profiles as they were.
C12_UnknownProfileRejected ==
  [][\A id \in StoreIds :
       (id \notin DOMAIN state.profiles /\ dispatched(setCurrentProfileAction(id), OpTime)) =>
         (threw' /\ state' = state)]_vars

\* C13: PROFILE_SET_CURRENT with an id that keys a profile changes only
\* currentProfile, to that id: the profile ids and every profile's name,
\* candidates, scores, pending pairs, dateTime and totalComparisons stay.
C13_SetCurrentOnlySelects ==
  [][\A id \in StoreIds :
       (id \in DOMAIN state.profiles /\ dispatched(setCurrentProfileAction(id), OpTime)) =>
         /\ ~threw'
         /\ state'.currentProfile = id
         /\ state'.profiles = state.profiles]_vars

\* the older of two profiles has been selected again, the other one keeping the
\* vote, skip or merge applied to it
C13_Witness ==
  /\ lastType = PROFILE_SET_CURRENT
  /\ ~threw
  /\ DOMAIN state.profiles = ProfileKeys
  /\ \E k \in ProfileKeys :
       /\ k # state.currentProfile
       /\ hist[k].votes + hist[k].skips + hist[k].merges > 0
       /\ currentProfile.dateTime = AddTime

\* C14: in every state reachable from the initial one, currentProfile is null
\* or keys an entry of profiles.
C14_CurrentProfileExists ==
  state.currentProfile = Null \/ state.currentProfile \in DOMAIN state.profiles

\* C15: PROFILE_ADD inserts the new profile under a fresh id and selects it,
\* removing and replacing no profile: every id that keyed a profile keys the
\* same content afterwards, there is exactly one profile more, currentProfile
\* is the new id; so the set of profile ids never shrinks.
C15_AddKeepsProfiles ==
  [][/\ lastType' = PROFILE_ADD =>
          /\ \A k \in DOMAIN state.profiles :
               k \in DOMAIN state'.profiles /\ state'.profiles[k] = state.profiles[k]
          /\ Cardinality(DOMAIN state'.profiles) = Cardinality(DOMAIN state.profiles) + 1
          /\ state'.currentProfile \in DOMAIN state'.profiles \ DOMAIN state.profiles
     /\ DOMAIN state.profiles \subseteq DOMAIN state'.profiles]_vars

----------------------------------------------------------------------------
(* Claims about Profile.js *)

\* C16: uniqueByName returns exactly one candidate per distinct name of its
\* input: no two candidates share an id, the id is the name, every score is 0,
\* a name given by several rows carries the image of the last of them, and an
\* empty input gives an empty result.
C16_OneCandidatePerName ==
  norm.done =>
    LET rows == norm.rows
        list == norm.list
    IN /\ {list[i].name : i \in DOMAIN list} = {rows[j].name : j \in DOMAIN rows}
       /\ \A i, k \in DOMAIN list : list[i].id = list[k].id => i = k
       /\ \A i \in DOMAIN list :
            /\ list[i].id = list[i].name
            /\ list[i].score = 0
            /\ \E j \in DOMAIN rows :
                 /\ rows[j].name = list[i].name
                 /\ rows[j].image = list[i].image
                 /\ \A l \in DOMAIN rows : rows[l].name = rows[j].name => l <= j
       /\ rows = <<>> => list = <<>>

\* C17: the id-collision loop of PROFILE_ADD always ends: also when every
\* generated id keys a profile already, it regenerates the id at most 100
\* times, then gives up with a warning, and the action still completes: the new
\* profile is stored under the last generated, colliding id and selected.
C17_CollisionLoopGivesUp ==
  [][ctxLast'.type = PROFILE_ADD =>
       /\ ~ctxLast'.threw
       /\ ctxLast'.generated <= SafetyCheck + 1
       /\ DOMAIN ctx.profiles = ProfileKeys => ctxLast'.warned
       /\ ctxLast'.warned =>
            /\ ctxLast'.generated = SafetyCheck + 1
            /\ ctx'.currentProfile \in DOMAIN ctx.profiles
       /\ ctx'.currentProfile \in DOMAIN ctx'.profiles
       /\ ctx'.profiles[ctx'.currentProfile].voted = <<>>
       /\ DOMAIN ctx'.profiles = DOMAIN ctx.profiles \cup {ctx'.currentProfile}]_vars

\* the loop has given up after 101 colliding ids and the profile that was
\* added replaced the one stored under the last of them
C17_Witness ==
  /\ ctxLast # <<>>
  /\ ctxLast.type = PROFILE_ADD
  /\ ctxLast.warned
  /\ ctxLast.generated = SafetyCheck + 1
  /\ DOMAIN ctx.profiles = ProfileKeys
  /\ ctx.profiles[ctx.currentProfile].list # <<>>

----------------------------------------------------------------------------
(* Claims about voting a profile to the end *)

\* C18: for a profile added with P pending pairs and never merged into, along
\* votes on pending pairs and skips: a pair leaves the queue only through a
\* vote, never through a skip; a voted pair never comes back; and as votes on
\* pending pairs keep being applied, whatever skips come in between, the queue
\* becomes empty after exactly P votes and stays empty, progress then being
\* totalComparisons.
C18_VotesEmptyTheQueue ==
  /\ [][currentIsStored =>
          LET pairs == currentProfile.pairs
              after == currentProfileAfter.pairs
          IN /\ idsOf(after) \subseteq idsOf(pairs)
             /\ idsOf(after) \cap hist'[state.currentProfile].votedIds = {}
             /\ after # pairs => ~threw'
             /\ Len(after) < Len(pairs) => (lastType' = PAIR_VOTE /\ Len(after) = Len(pairs) - 1)
             /\ lastType' = PAIR_SKIP => (Len(after) = Len(pairs) /\ idsOf(after) = idsOf(pairs))]_vars
  /\ [](currentIsStored => <>[]votedOut)
  /\ [](votedOut =>
          /\ currentHist.votes = currentProfile.totalComparisons
          /\ currentHist.removed = currentProfile.totalComparisons
          /\ progress(currentProfile) = currentProfile.totalComparisons)

\* a profile added with three pairs has been voted empty, a skip in between
C18_Witness ==
  /\ currentIsStored
  /\ currentProfile.pairs = <<>>
  /\ currentProfile.totalComparisons = MaxQueue
  /\ currentHist.votes = MaxQueue
  /\ currentHist.skips > 0

----------------------------------------------------------------------------
(* More claims about the profile store of part_001 *)

KnownTypes == {PROFILE_ADD, PROFILE_SET_CURRENT, PAIR_VOTE, PAIR_SKIP, LIST_RESET_ROWS}

\* C19: an action whose type is none of the known action kinds is rejected by
\* the reducer with an error; it does not fall through silently.
C19_UnknownTypeRejected ==
  [][lastType' \notin KnownTypes => threw']_vars

\* C20: PAIR_VOTE, PAIR_SKIP and LIST_RESET_ROWS touch only the current
\* profile: every other profile has the same candidates, scores, pending pairs
\* with their skipped counters, dateTime and totalComparisons afterwards, and
\* currentProfile is unchanged.
\* (It fails where another profile's queue holds the pair object that PAIR_SKIP
\* writes to: the queues of both got it from one LIST_RESET_ROWS action object.)
C20_OtherProfilesUntouched ==
  [][lastType' \in {PAIR_VOTE, PAIR_SKIP, LIST_RESET_ROWS} =>
       /\ state'.currentProfile = state.currentProfile
       /\ DOMAIN state'.profiles = DOMAIN state.profiles
       /\ \A k \in DOMAIN state.profiles \ {state.currentProfile} :
            state'.profiles[k] = state.profiles[k]]_vars

============================================================================
